---- MODULE Spec2Model ----
(***************************************************************************)
(* Model of array_functions.py: element geometries, the array manifold,    *)
(* the steered array factors and the directivity estimators.               *)
(*                                                                         *)
(* Every function of the module is pure.  A behaviour of the model is a    *)
(* sequence of calls: from "idle" one function is called with arguments    *)
(* drawn from bounded sets, the state records the call and what it         *)
(* returned (a value or the exception numpy/python raises), and Return     *)
(* goes back to "idle".                                                    *)
(*                                                                         *)
(* Numbers.  Lengths and direction cosines live on integer lattices        *)
(* chosen so that position . direction is a whole number of quarter turns: *)
(* exp(2j*pi*t) is then one of 1, j, -1, -j and an array factor is a       *)
(* Gaussian integer <<re, im>>, computed exactly.  hex_positions measures  *)
(* y in units of sqrt(3) times the x unit, so dy = dx*sqrt(3) is the same  *)
(* integer as dx.                                                          *)
(***************************************************************************)
EXTENDS Integers, Sequences, FiniteSets, TLC

VARIABLES pc, op, args, ret

vars == <<pc, op, args, ret>>

(***************************************************************************)
(* Bounds of the model.                                                    *)
(***************************************************************************)
MaxGrid == 3        \* largest Nx, Ny of a rectangular grid
MaxHex == 5         \* largest Nx of a hexagonal grid
MaxSpacing == 2     \* largest dx, dy of a rectangular grid (lattice units)
MaxSrc == 2         \* most source directions of one call
MaxSteer == 2       \* most steering directions handed to a single-steer call
MaxScan == 2        \* most scan pixels of one call
MaxN == 2           \* most elements of a linear array
MaxRows == 2        \* most rows (phi) of a power pattern
MaxCols == 3        \* most columns (theta) of a power pattern
GridL == 1          \* the l axis of the end-to-end grid is -GridL..GridL
GridM == 3          \* the m axis of the end-to-end grid is -GridM..GridM

\* BeamPlots.py: N = 5, d = 0.9.  The x unit of that geometry is d/2 = 0.45
\* wavelengths, so d is 2 units.
ScenarioN == 5
ScenarioDx == 2

(***************************************************************************)
(* numpy helpers on 1-D arrays (sequences).                                *)
(***************************************************************************)
\* np.arange(n): 0, 1, ..., n-1 (empty for n <= 0)
arange(n) == [i \in 1..n |-> i - 1]

\* np.tile(a, reps): reps copies of a one after the other
RECURSIVE tile(_, _)
tile(a, reps) == IF reps <= 0 THEN <<>> ELSE a \o tile(a, reps - 1)

\* np.repeat(a, n): every element of a repeated n times in place
RECURSIVE repeat(_, _)
repeat(a, n) ==
    IF a = <<>> THEN <<>>
    ELSE [i \in 1..n |-> Head(a)] \o repeat(Tail(a), n)

\* a * d for a 1-D array a and a scalar d
scale(a, d) == [k \in 1..Len(a) |-> a[k] * d]

\* np.stack((px, py), 1): row k is <<px[k], py[k]>>
stack1(px, py) == [k \in 1..Len(px) |-> <<px[k], py[k]>>]

(***************************************************************************)
(* Geometry.                                                               *)
(***************************************************************************)
\* upa_positions with tile and repeat exchanged: y varies fastest
upa_positions_y_fastest(Nx, Ny, dx, dy) ==
    LET px == scale(repeat(arange(Nx), Ny), dx)
        py == scale(tile(arange(Ny), Nx), dy)
    IN  stack1(px, py)

upa_positions(Nx, Ny, dx, dy) ==
    LET px == scale(tile(arange(Nx), Ny), dx)
        py == scale(repeat(arange(Ny), Nx), dy)
    IN  stack1(px, py)

\* np.round(Nx/np.sqrt(3)).astype(int): the integer k with
\* k - 1/2 < Nx/sqrt(3) < k + 1/2, decided on squares (Nx/sqrt(3) is never
\* a half-integer, so the rounding mode plays no part).
RoundDivSqrt3(Nx) ==
    CHOOSE k \in 0..Nx :
        /\ (2 * k - 1 <= 0 \/ 3 * (2 * k - 1) * (2 * k - 1) < 4 * Nx * Nx)
        /\ 4 * Nx * Nx < 3 * (2 * k + 1) * (2 * k + 1)

\* p2 + np.array([dx/2, dy/2])
shift(p, v) == [k \in 1..Len(p) |-> <<p[k][1] + v[1], p[k][2] + v[2]>>]

\* hex_positions whose second sublattice keeps Ny rows
hex_positions_full_second(Nx, dx) ==
    LET dy == dx
        Ny == RoundDivSqrt3(Nx)
        p1 == upa_positions(Nx, Ny, dx, dy)
        p2 == shift(upa_positions(Nx - 1, Ny, dx, dy), <<dx \div 2, dy \div 2>>)
    IN  p1 \o p2

\* dx is an even number of x units; y is in units of sqrt(3) x units, so
\* dy = dx*sqrt(3) is dx of them and dy/2 is dx/2 of them.
hex_positions(Nx, dx) ==
    LET dy == dx
        Ny == RoundDivSqrt3(Nx)
        p1 == upa_positions(Nx, Ny, dx, dy)
        p2 == shift(upa_positions(Nx - 1, Ny - 1, dx, dy), <<dx \div 2, dy \div 2>>)
    IN  p1 \o p2

(***************************************************************************)
(* Array-likes and exceptions.  A function returns Value(v), or Raised(e)  *)
(* when numpy or python raises e and the call never returns.               *)
(***************************************************************************)
Value(v) == [kind |-> "value", v |-> v]
Raised(e) == [kind |-> e, v |-> <<>>]

\* A python/numpy scalar, and a 1-D array
Scalar(x) == [ndim |-> 0, data |-> <<x>>]
Array1(s) == [ndim |-> 1, data |-> s]

\* np.atleast_1d(a): a scalar becomes an array of length 1, an array stays
atleast_1d(a) == a.data

Max(a, b) == IF a >= b THEN a ELSE b

(***************************************************************************)
(* Complex numbers <<re, im>> with integer parts.                          *)
(***************************************************************************)
CAdd(a, b) == <<a[1] + b[1], a[2] + b[2]>>
CMul(a, b) == <<a[1] * b[1] - a[2] * b[2], a[1] * b[2] + a[2] * b[1]>>
CConj(a) == <<a[1], -a[2]>>
AbsSq(a) == a[1] * a[1] + a[2] * a[2]

\* np.exp(2j*np.pi*t) for t = q quarter turns
expTurns(q) ==
    CASE q % 4 = 0 -> <<1, 0>>
      [] q % 4 = 1 -> <<0, 1>>
      [] q % 4 = 2 -> <<-1, 0>>
      [] q % 4 = 3 -> <<0, -1>>

(***************************************************************************)
(* numpy on 2-D arrays (sequences of rows).                                *)
(***************************************************************************)
\* np.stack((a, b)): the 2 x P array of rows a and b
stack0(a, b) ==
    IF Len(a) # Len(b) THEN Raised("ValueError") ELSE Value(<<a, b>>)

\* S - S0 for 2 x P and 2 x K arrays under numpy's broadcasting: equal
\* widths subtract column by column, a width of 1 is stretched, anything
\* else cannot be broadcast.
BroadcastSub(S, S0) ==
    LET P == Len(S[1])
        K == Len(S0[1])
    IN  IF P = K \/ K = 1 \/ P = 1
        THEN Value([r \in 1..2 |-> [c \in 1..Max(P, K) |->
                 S[r][IF P = 1 THEN 1 ELSE c] - S0[r][IF K = 1 THEN 1 ELSE c]]])
        ELSE Raised("ValueError")

RECURSIVE DotFrom(_, _, _, _)
DotFrom(row, B, p, c) ==
    IF c > Len(row) THEN 0 ELSE row[c] * B[c][p] + DotFrom(row, B, p, c + 1)

\* A @ B: the inner dimensions must agree
matmul(A, B) ==
    IF Len(A[1]) # Len(B) THEN Raised("ValueError")
    ELSE Value([j \in 1..Len(A) |-> [p \in 1..Len(B[1]) |-> DotFrom(A[j], B, p, 1)]])

RECURSIVE ColumnSum(_, _, _)
ColumnSum(E, p, j) ==
    IF j > Len(E) THEN <<0, 0>> ELSE CAdd(E[j][p], ColumnSum(E, p, j + 1))

\* np.sum(E, 0) that misses the first row
sum0_skip_first(E) == [p \in 1..Len(E[1]) |-> ColumnSum(E, p, 2)]

\* np.sum(E, 0): the sum of every column
sum0(E) == [p \in 1..Len(E[1]) |-> ColumnSum(E, p, 1)]

\* np.exp(2j*np.pi*M), element by element
expMatrix(M) == [j \in 1..Len(M) |-> [p \in 1..Len(M[1]) |-> expTurns(M[j][p])]]

\* steered_sum that forgets the steering direction
steered_sum_unsteered(positions, S, S0) ==
    LET M == matmul(positions, S)
    IN  IF M.kind # "value" THEN M ELSE Value(sum0(expMatrix(M.v)))

\* np.sum(np.exp(2j*np.pi*positions@(S-S0)),0)
steered_sum(positions, S, S0) ==
    LET D == BroadcastSub(S, S0)
    IN  IF D.kind # "value" THEN D
        ELSE LET M == matmul(positions, D.v)
             IN  IF M.kind # "value" THEN M ELSE Value(sum0(expMatrix(M.v)))

(***************************************************************************)
(* The spherical pixelisation (healpy), nside = 1, RING order: pixels 0..3 *)
(* lie on the ring z = 2/3 at azimuth 45, 135, 225, 315 degrees, 4..7 on   *)
(* the equator at 0, 90, 180, 270 degrees, 8..11 on the ring z = -2/3.     *)
(* x and y are given on the lattice of step 1/2 (0.527 is 1, 1.0 is 2).    *)
(***************************************************************************)
PixX == <<1, -1, -1, 1, 2, 0, -2, 0, 1, -1, -1, 1>>
PixY == <<1, 1, -1, -1, 0, 2, 0, -2, 1, 1, -1, -1>>

\* sx, sy, _ = hp.pix2vec(nside, pixels)
pix2vec(nside, pixels) ==
    <<[k \in 1..Len(pixels) |-> PixX[pixels[k] + 1]],
      [k \in 1..Len(pixels) |-> PixY[pixels[k] + 1]]>>

\* sin and cos of k quarter turns
sinQ(k) == expTurns(k)[2]
cosQ(k) == expTurns(k)[1]

\* hp.ang2vec(theta, phi)[:,:2].T for angles in quarter turns:
\* x = sin(theta)cos(phi), y = sin(theta)sin(phi)
ang2vec_xy(theta, phi) ==
    LET T == Len(theta)
        F == Len(phi)
    IN  IF T = F \/ T = 1 \/ F = 1
        THEN Value(<<[k \in 1..Max(T, F) |->
                        sinQ(theta[IF T = 1 THEN 1 ELSE k]) * cosQ(phi[IF F = 1 THEN 1 ELSE k])],
                     [k \in 1..Max(T, F) |->
                        sinQ(theta[IF T = 1 THEN 1 ELSE k]) * sinQ(phi[IF F = 1 THEN 1 ELSE k])]>>)
        ELSE Raised("ValueError")

(***************************************************************************)
(* Manifold and array factors.                                             *)
(***************************************************************************)
\* array_manifold with l and m exchanged
array_manifold_swapped(l, m, positions) ==
    LET S == stack0(m, l)
    IN  IF S.kind # "value" THEN S
        ELSE LET M == matmul(positions, S.v)
             IN  IF M.kind # "value" THEN M ELSE Value(expMatrix(M.v))

array_manifold(l, m, positions) ==
    LET S == stack0(l, m)
    IN  IF S.kind # "value" THEN S
        ELSE LET M == matmul(positions, S.v)
             IN  IF M.kind # "value" THEN M ELSE Value(expMatrix(M.v))

\* A.reshape((nscan, nsource)) of a flat array, row-major
reshape(A, nscan, nsource) ==
    [s \in 1..nscan |-> [p \in 1..nsource |-> A[(s - 1) * nsource + p]]]

\* array_factor_hpmatrix that repeats the sources and tiles the steerings
array_factor_hpmatrix_swapped(nside, source_pixels, scan_pixels, positions) ==
    LET S == pix2vec(nside, source_pixels)
        S0 == pix2vec(nside, atleast_1d(scan_pixels))
        nsource == Len(source_pixels)
    IN  IF scan_pixels.ndim = 0 THEN Raised("TypeError")
        ELSE LET nscan == Len(scan_pixels.data)
                 St == <<repeat(S[1], nscan), repeat(S[2], nscan)>>
                 S0r == <<tile(S0[1], nsource), tile(S0[2], nsource)>>
                 A == steered_sum(positions, St, S0r)
             IN  IF A.kind # "value" THEN A
                 ELSE Value(reshape(A.v, nscan, nsource))

array_factor_hpmatrix(nside, source_pixels, scan_pixels, positions) ==
    LET S == pix2vec(nside, source_pixels)
        S0 == pix2vec(nside, atleast_1d(scan_pixels))
        nsource == Len(source_pixels)
    IN  IF scan_pixels.ndim = 0 THEN Raised("TypeError")   \* len() of a scalar
        ELSE LET nscan == Len(scan_pixels.data)
                 St == <<tile(S[1], nscan), tile(S[2], nscan)>>
                 S0r == <<repeat(S0[1], nsource), repeat(S0[2], nsource)>>
                 A == steered_sum(positions, St, S0r)
             IN  IF A.kind # "value" THEN A
                 ELSE Value(reshape(A.v, nscan, nsource))

array_factor_hp(nside, source_pixels, scan_pixel, positions) ==
    LET S == pix2vec(nside, source_pixels)
        S0 == pix2vec(nside, atleast_1d(scan_pixel))
    IN  steered_sum(positions, S, S0)

array_factor_tp(theta, phi, theta0, phi0, positions) ==
    LET S == ang2vec_xy(theta, phi)
        S0 == ang2vec_xy(atleast_1d(theta0), atleast_1d(phi0))
    IN  IF S.kind # "value" THEN S
        ELSE IF S0.kind # "value" THEN S0
        ELSE steered_sum(positions, S.v, S0.v)

array_factor_lm(l, m, l0, m0, positions) ==
    LET S == stack0(l, m)
        S0 == stack0(atleast_1d(l0), atleast_1d(m0))
    IN  IF S.kind # "value" THEN S
        ELSE IF S0.kind # "value" THEN S0
        ELSE steered_sum(positions, S.v, S0.v)

(***************************************************************************)
(* Calls.                                                                  *)
(***************************************************************************)
(***************************************************************************)
(* Double-precision numbers of linear_directivity.  With weights that are  *)
(* small integers and 2*d an integer, every number met is a small integer  *)
(* plus a residue of a few 1e-17: np.sinc(k) is not 0 for an integer       *)
(* k # 0 but sin(pi*k)/(pi*k) computed with the double nearest to pi,      *)
(* +3.898e-17 for odd k and -3.898e-17 for even k.  A number is            *)
(* <<w, t>>: the integer w plus t millionths of 2^-53 (half the spacing    *)
(* of the doubles in [1, 2)).  A complex number is a pair of them.         *)
(***************************************************************************)
Abs(x) == IF x < 0 THEN -x ELSE x

\* 2^-53 in millionths of 2^-53, and |np.sinc(k)| = 0.351116 * 2^-53
HalfUlpOne == 1000000
SincResidue == 351116

RECURSIVE Pow2Floor(_)
Pow2Floor(n) == IF n < 2 THEN 1 ELSE 2 * Pow2Floor(n \div 2)

\* the spacing of the doubles around w + t, w # 0: 2^e * 2^-52 in
\* [2^e, 2^(e+1)), and half of it just below 2^e
Spacing(w, t) ==
    LET b == Pow2Floor(Abs(w))
        below == b = Abs(w) /\ ((w > 0 /\ t < 0) \/ (w < 0 /\ t > 0))
    IN  IF below THEN b * HalfUlpOne ELSE 2 * b * HalfUlpOne

\* t rounded to the nearest multiple of g, a tie going to the even multiple
\* (the double whose last mantissa bit is 0)
RoundTo(t, g) ==
    LET lo == Abs(t) \div g
        rem == Abs(t) % g
        q == IF 2 * rem < g THEN lo
             ELSE IF 2 * rem > g THEN lo + 1
             ELSE IF lo % 2 = 0 THEN lo ELSE lo + 1
    IN  IF t < 0 THEN -(q * g) ELSE q * g

\* x + y in double precision: the exact sum, rounded to the nearest double
\* (a sum with no integer part is a residue, kept as it is)
FAdd(x, y) ==
    LET w == x[1] + y[1]
        t == x[2] + y[2]
    IN  IF w = 0 THEN <<0, t>> ELSE <<w, RoundTo(t, Spacing(w, t))>>

FZero == <<0, 0>>
FCAdd(x, y) == <<FAdd(x[1], y[1]), FAdd(x[2], y[2])>>
FCZero == <<FZero, FZero>>

\* np.sinc(x) for an integer x
sinc(x) ==
    IF x = 0 THEN <<1, 0>>
    ELSE IF x % 2 = 1 THEN <<0, SincResidue>> ELSE <<0, -SincResidue>>

\* c * s for a complex c with integer parts and a real s
CScale(c, s) == << <<c[1] * s[1], c[1] * s[2]>>, <<c[2] * s[1], c[2] * s[2]>> >>

\* np.abs of a complex number with integer parts and an integer modulus
npabs(w) == CHOOSE n \in 0..(Abs(w[1]) + Abs(w[2])) : n * n = AbsSq(w)

RECURSIVE IntSum(_)
IntSum(sq) == IF sq = <<>> THEN 0 ELSE Head(sq) + IntSum(Tail(sq))

\* np.kron(a, b) of two 1-D arrays
kron(a, b) ==
    [k \in 1..(Len(a) * Len(b)) |->
        CMul(a[((k - 1) \div Len(b)) + 1], b[((k - 1) % Len(b)) + 1])]

\* np.diag(v, k): v on the k-th diagonal of a square matrix of zeros
diag(v, k) ==
    LET n == Len(v) + Abs(k)
    IN  [r \in 1..n |-> [c \in 1..n |->
            IF c - r = k THEN v[IF k >= 0 THEN r ELSE c] ELSE 0]]

MatAdd(A, B) == [r \in 1..Len(A) |-> [c \in 1..Len(A[r]) |-> A[r][c] + B[r][c]]]

\* the loop over i in range(from, N) on diff_matrix
RECURSIVE DiffLoop(_, _, _)
DiffLoop(diff_matrix, i, N) ==
    IF i >= N THEN diff_matrix
    ELSE LET d == [k \in 1..(N - i) |-> i]     \* np.ones(N-i)*i
             minus == [k \in 1..(N - i) |-> -i]
         IN  DiffLoop(MatAdd(MatAdd(diff_matrix, diag(minus, i)), diag(d, -i)), i + 1, N)

zeros(N) == [r \in 1..N |-> [c \in 1..N |-> 0]]

\* coeff_products * np.sinc(sinc_args), flattened row by row
Terms(a, twod) ==
    LET N == Len(a)
        coeff_products == reshape(kron(a, a), N, N)
        diff_matrix == DiffLoop(zeros(N), 1, N)
    IN  [k \in 1..(N * N) |->
            LET r == ((k - 1) \div N) + 1
                c == ((k - 1) % N) + 1
            IN  CScale(coeff_products[r][c], sinc(twod * diff_matrix[r][c]))]

RECURSIVE SumForward(_, _)
SumForward(acc, sq) ==
    IF sq = <<>> THEN acc ELSE SumForward(FCAdd(acc, Head(sq)), Tail(sq))

RECURSIVE SumHalves(_)
SumHalves(sq) ==
    IF Len(sq) = 1 THEN sq[1]
    ELSE LET h == Len(sq) \div 2
         IN  FCAdd(SumHalves(SubSeq(sq, 1, h)), SumHalves(SubSeq(sq, h + 1, Len(sq))))

\* np.sum of a non-empty flat array.  The order in which numpy adds the
\* elements depends on the build (the reduction takes the first element and
\* adds a blocked, possibly vectorised, sum of the rest), and double
\* addition is not associative: the order is one of these.
SumOrders == {"forward", "first_plus_rest", "halves"}

npsum(sq, order) ==
    CASE order = "forward" -> SumForward(FCZero, sq)
      [] order = "first_plus_rest" -> FCAdd(Head(sq), SumForward(FCZero, Tail(sq)))
      [] order = "halves" -> SumHalves(sq)

\* n / den for a real n with integer value and a complex den: nan and inf
\* for a zero den (numpy warns and returns), the quotient otherwise
Divide(n, den) ==
    IF den = FCZero
    THEN (IF n = 0 THEN [kind |-> "nan"] ELSE [kind |-> "inf"])
    ELSE [kind |-> "quotient", num |-> n, den |-> den]

\* linear_directivity whose numerator is the sum of the squared moduli
linear_directivity_sum_of_squares(a, twod, order) ==
    LET D_num == IntSum([k \in 1..Len(a) |-> npabs(a[k]) * npabs(a[k])])
        D_den == npsum(Terms(a, twod), order)
    IN  Value(Divide(D_num, D_den))

\* d is given as twod = 2*d, an integer
linear_directivity(a, twod, order) ==
    LET D_num == IntSum([k \in 1..Len(a) |-> npabs(a[k])]) * IntSum([k \in 1..Len(a) |-> npabs(a[k])])
        D_den == npsum(Terms(a, twod), order)
    IN  Value(Divide(D_num, D_den))

\* the quotient q is exactly the real number k
IsExactly(q, k) ==
    /\ q.kind = "quotient"
    /\ q.den[2] = FZero
    /\ q.den[1][2] = 0
    /\ q.num = k * q.den[1][1]

(***************************************************************************)
(* Numerical directivity.  Angles are in quarter turns (np.sin is then     *)
(* 0, 1, 0, -1), the power pattern holds integers, and the radiated power  *)
(* is in units of (pi/2)^2.                                                *)
(***************************************************************************)
\* PowerPattern*np.sin(theta): a (R,C) array times a (T,) array under
\* numpy's broadcasting
TimesSin(PowerPattern, theta) ==
    LET C == Len(PowerPattern[1])
        T == Len(theta)
    IN  IF C = T \/ C = 1 \/ T = 1
        THEN Value([r \in 1..Len(PowerPattern) |-> [c \in 1..Max(C, T) |->
                 PowerPattern[r][IF C = 1 THEN 1 ELSE c] * sinQ(theta[IF T = 1 THEN 1 ELSE c])]])
        ELSE Raised("ValueError")

radiated_power(PowerPattern, theta, phi) ==
    IF Len(theta) < 2 THEN Raised("IndexError")          \* theta[1]
    ELSE IF Len(phi) < 2 THEN Raised("IndexError")       \* phi[1]
    ELSE LET dt == theta[2] - theta[1]
             dp == phi[2] - phi[1]
             W == TimesSin(PowerPattern, theta)
         IN  IF W.kind # "value" THEN W
             ELSE Value(IntSum([r \in 1..Len(W.v) |-> IntSum(W.v[r]) * dt]) * dp)

RECURSIVE SeqMax(_)
SeqMax(sq) ==
    IF Len(sq) = 1 THEN sq[1] ELSE Max(Head(sq), SeqMax(Tail(sq)))

\* 4*np.pi*np.max(PowerPattern) / Prad = (16*max/Prad) / pi with Prad in
\* units of (pi/2)^2; the quotient is kept in units of 1/pi
numerical_directivity(PowerPattern, theta, phi) ==
    LET D_num == 16 * SeqMax([r \in 1..Len(PowerPattern) |-> SeqMax(PowerPattern[r])])
        D_den == radiated_power(PowerPattern, theta, phi)
    IN  IF D_den.kind # "value" THEN D_den
        ELSE Value(Divide(D_num, << <<D_den.v, 0>>, FZero >>))

(***************************************************************************)
(* Inputs of the calls.                                                    *)
(***************************************************************************)
SeqsUpTo(S, n) == UNION {[1..k -> S] : k \in 1..n}

Firsts(sq) == [k \in 1..Len(sq) |-> sq[k][1]]
Seconds(sq) == [k \in 1..Len(sq) |-> sq[k][2]]

\* (J,2) position arrays: one element, a rectangular grid, a hexagonal
\* grid and an irregular array
Geometries ==
    { upa_positions(1, 1, 1, 1), upa_positions(2, 2, 1, 2), hex_positions(3, 2),
      <<<<1, 0>>, <<0, 3>>, <<2, 1>>>> }

\* a (J,3) array, which is no position array
BadGeometries == { <<<<0, 0, 0>>>> }

\* direction cosines (l, m), on the lattice
Dirs == { <<0, 0>>, <<1, 0>>, <<0, 1>>, <<-1, 1>>, <<2, -1>> }
SteerDirs == { <<0, 0>>, <<1, 0>>, <<-1, 1>> }

\* angles (theta, phi) in quarter turns
Angles == { <<0, 0>>, <<1, 0>>, <<1, 1>>, <<1, 2>>, <<2, 3>> }
SteerAngles == { <<0, 0>>, <<1, 0>>, <<1, 1>> }

\* pixels of the nside = 1 map
Nsides == {1}
Pixels == {0, 1, 4, 5}
ScanPixels == {0, 4, 5}

\* np.linspace(-n, n, 2n+1)
axis(n) == [i \in 1..(2 * n + 1) |-> i - n - 1]

\* L, M = np.meshgrid(lv, mv); L.flatten(), M.flatten()
meshgrid_flat(lv, mv) == <<tile(lv, Len(mv)), repeat(mv, Len(lv))>>

\* a steering direction: two scalars, or two arrays of the same length
Steerings(dirs, steerdirs) ==
    { [a |-> Scalar(d[1]), b |-> Scalar(d[2])] : d \in dirs }
    \cup { [a |-> Array1(Firsts(sq)), b |-> Array1(Seconds(sq))] :
             sq \in SeqsUpTo(steerdirs, MaxSteer) }

LmInputs ==
    { [l |-> Firsts(src), m |-> Seconds(src), l0 |-> st.a, m0 |-> st.b, positions |-> g] :
        src \in SeqsUpTo(Dirs, MaxSrc), st \in Steerings(Dirs, SteerDirs),
        g \in Geometries \cup BadGeometries }
    \cup  \* l and m of different lengths
    { [l |-> <<0, 1>>, m |-> <<0>>, l0 |-> Scalar(0), m0 |-> Scalar(0), positions |-> g] :
        g \in Geometries }
    \cup  \* end to end: the hexagonal array over a whole (l, m) grid, broadside
    { [l |-> meshgrid_flat(axis(GridL), axis(GridM))[1],
       m |-> meshgrid_flat(axis(GridL), axis(GridM))[2],
       l0 |-> Scalar(0), m0 |-> Scalar(0),
       positions |-> hex_positions(ScenarioN, ScenarioDx)] }

TpInputs ==
    { [theta |-> Firsts(src), phi |-> Seconds(src), theta0 |-> st.a, phi0 |-> st.b,
       positions |-> g] :
        src \in SeqsUpTo(Angles, MaxSrc), st \in Steerings(Angles, SteerAngles),
        g \in Geometries \cup BadGeometries }

ScanInputs ==
    { Scalar(x) : x \in Pixels } \cup { Array1(sq) : sq \in SeqsUpTo(ScanPixels, MaxScan) }

HpInputs ==
    { [nside |-> n, source_pixels |-> src, scan |-> sc, positions |-> g] :
        n \in Nsides, src \in SeqsUpTo(Pixels, MaxSrc), sc \in ScanInputs,
        g \in Geometries \cup BadGeometries }

ManifoldInputs ==
    { [l |-> Firsts(src), m |-> Seconds(src), positions |-> g] :
        src \in SeqsUpTo(Dirs, MaxSrc), g \in Geometries \cup BadGeometries }

\* tapering weights (complex numbers with integer parts) and 2*d
WeightValues == { <<1, 0>>, <<-1, 0>>, <<2, 0>>, <<0, 1>>, <<0, 0>> }
TwoDs == {0, 1, 2}

DirectivityInputs ==
    { [a |-> a, twod |-> t, order |-> o] :
        a \in SeqsUpTo(WeightValues, MaxN), t \in TwoDs, o \in SumOrders }

\* power patterns: isotropic ones of every shape, and one with a peak
PowerPatterns ==
    { [r \in 1..R |-> [c \in 1..C |-> 1]] : R \in 1..MaxRows, C \in 1..MaxCols }
    \cup { <<<<1, 3, 1>>, <<1, 2, 1>>>> }

PatternInputs ==
    { [PowerPattern |-> P, theta |-> arange(T), phi |-> arange(F)] :
        P \in PowerPatterns, T \in 1..(MaxCols + 1), F \in 1..(MaxRows + 1) }

Init ==
    /\ pc = "idle"
    /\ op = "none"
    /\ args = <<>>
    /\ ret = Raised("none")

\* the call of function name with arguments a, which ends with r
Call(name, a, r) ==
    /\ pc' = "done"
    /\ op' = name
    /\ args' = a
    /\ ret' = r

CallUpaPositions ==
    /\ pc = "idle"
    /\ \E Nx \in 1..MaxGrid, Ny \in 1..MaxGrid, dx \in 1..MaxSpacing, dy \in 1..MaxSpacing :
           Call("upa_positions", [Nx |-> Nx, Ny |-> Ny, dx |-> dx, dy |-> dy],
                Value(upa_positions(Nx, Ny, dx, dy)))

CallHexPositions ==
    /\ pc = "idle"
    /\ \E Nx \in 1..MaxHex, h \in 1..MaxSpacing :
           Call("hex_positions", [Nx |-> Nx, dx |-> 2 * h],
                Value(hex_positions(Nx, 2 * h)))

CallArrayManifold ==
    /\ pc = "idle"
    /\ \E a \in ManifoldInputs :
           Call("array_manifold", a, array_manifold(a.l, a.m, a.positions))

CallArrayFactorHpmatrix ==
    /\ pc = "idle"
    /\ \E a \in HpInputs :
           Call("array_factor_hpmatrix", a,
                array_factor_hpmatrix(a.nside, a.source_pixels, a.scan, a.positions))

CallArrayFactorHp ==
    /\ pc = "idle"
    /\ \E a \in HpInputs :
           Call("array_factor_hp", a,
                array_factor_hp(a.nside, a.source_pixels, a.scan, a.positions))

CallArrayFactorTp ==
    /\ pc = "idle"
    /\ \E a \in TpInputs :
           Call("array_factor_tp", a,
                array_factor_tp(a.theta, a.phi, a.theta0, a.phi0, a.positions))

CallArrayFactorLm ==
    /\ pc = "idle"
    /\ \E a \in LmInputs :
           Call("array_factor_lm", a,
                array_factor_lm(a.l, a.m, a.l0, a.m0, a.positions))

CallLinearDirectivity ==
    /\ pc = "idle"
    /\ \E a \in DirectivityInputs :
           Call("linear_directivity", a, linear_directivity(a.a, a.twod, a.order))

CallRadiatedPower ==
    /\ pc = "idle"
    /\ \E a \in PatternInputs :
           Call("radiated_power", a, radiated_power(a.PowerPattern, a.theta, a.phi))

CallNumericalDirectivity ==
    /\ pc = "idle"
    /\ \E a \in PatternInputs :
           Call("numerical_directivity", a,
                numerical_directivity(a.PowerPattern, a.theta, a.phi))

Return ==
    /\ pc = "done"
    /\ pc' = "idle"
    /\ op' = "none"
    /\ args' = <<>>
    /\ ret' = Raised("none")

Next ==
    \/ CallUpaPositions
    \/ CallHexPositions
    \/ CallArrayManifold
    \/ CallArrayFactorHpmatrix
    \/ CallArrayFactorHp
    \/ CallArrayFactorTp
    \/ CallArrayFactorLm
    \/ CallLinearDirectivity
    \/ CallRadiatedPower
    \/ CallNumericalDirectivity
    \/ Return

Spec == Init /\ [][Next]_vars

(***************************************************************************)
(* Properties.                                                             *)
(***************************************************************************)
IsPositions(g) == \A j \in 1..Len(g) : Len(g[j]) = 2

\* C7: upa_positions returns Nx*Ny rows, x varying fastest: row k (from 0)
\* is ((k mod Nx)*dx, (k div Nx)*dy), and every grid point (i,j) appears
\* exactly once.
UpaRowMajor ==
    op = "upa_positions" =>
        /\ ret.kind = "value"
        /\ Len(ret.v) = args.Nx * args.Ny
        /\ \A k \in 0..(args.Nx * args.Ny - 1) :
               ret.v[k + 1] = <<(k % args.Nx) * args.dx, (k \div args.Nx) * args.dy>>
        /\ \A i \in 0..(args.Nx - 1), j \in 0..(args.Ny - 1) :
               Cardinality({k \in 1..Len(ret.v) : ret.v[k] = <<i * args.dx, j * args.dy>>}) = 1

UpaRowMajorWitness ==
    /\ op = "upa_positions"
    /\ args.Nx = 3 /\ args.Ny = 2 /\ args.dx = 1 /\ args.dy = 2
    /\ ret.v[2] = <<1, 0>>
    /\ ret.v[4] = <<0, 2>>

\* C6: hex_positions(nx, dx) returns nx*ny + (nx-1)*(ny-1) rows with
\* ny = round(nx/sqrt(3)): first upa_positions(nx, ny, dx, dy) in order, then
\* upa_positions(nx-1, ny-1, dx, dy) shifted by (dx/2, dy/2).
HexTwoSublattices ==
    op = "hex_positions" =>
        LET nx == args.Nx
            ny == RoundDivSqrt3(nx)
            dx == args.dx
            first == upa_positions(nx, ny, dx, dx)
            second == upa_positions(nx - 1, ny - 1, dx, dx)
        IN  /\ ret.kind = "value"
            /\ Len(ret.v) = nx * ny + (nx - 1) * (ny - 1)
            /\ Len(first) = nx * ny
            /\ \A k \in 1..(nx * ny) : ret.v[k] = first[k]
            /\ \A k \in 1..((nx - 1) * (ny - 1)) :
                   ret.v[nx * ny + k] = <<second[k][1] + dx \div 2, second[k][2] + dx \div 2>>

HexTwoSublatticesWitness ==
    /\ op = "hex_positions"
    /\ args.Nx = 5 /\ args.dx = 2
    /\ Len(ret.v) = 23
    /\ ret.v[15] = <<8, 4>>
    /\ ret.v[16] = <<1, 1>>

\* C1: array_factor_hpmatrix returns an Nscan x Nsource matrix whose row s
\* is what array_factor_hp returns for the same nside, source pixels and
\* positions and the scan pixel scan_pixels[s].
HpmatrixRowsAreHp ==
    (op = "array_factor_hpmatrix" /\ args.scan.ndim = 1 /\ IsPositions(args.positions)) =>
        LET nscan == Len(args.scan.data)
            nsource == Len(args.source_pixels)
        IN  /\ ret.kind = "value"
            /\ Len(ret.v) = nscan
            /\ \A s \in 1..nscan :
                   LET one == array_factor_hp(args.nside, args.source_pixels,
                                              Scalar(args.scan.data[s]), args.positions)
                   IN  /\ one.kind = "value"
                       /\ Len(ret.v[s]) = nsource
                       /\ \A p \in 1..nsource : ret.v[s][p] = one.v[p]

HpmatrixRowsAreHpWitness ==
    /\ op = "array_factor_hpmatrix"
    /\ args.scan = Array1(<<4, 0>>)
    /\ args.source_pixels = <<0, 5>>
    /\ args.positions = hex_positions(3, 2)
    /\ ret.kind = "value"
    /\ ret.v[1] # ret.v[2]
    /\ ret.v[2][1] = <<8, 0>>

\* the same call with a collection of one scan pixel
SingleScanWitness ==
    /\ op = "array_factor_hpmatrix"
    /\ args.scan.ndim = 1 /\ Len(args.scan.data) = 1
    /\ ret.kind = "value"

\* C2: an array factor evaluated with a single source direction equal to
\* the steering direction is J + 0j, J the number of elements.
InPhaseSumIsJ ==
    /\ (/\ op = "array_factor_lm" /\ IsPositions(args.positions)
        /\ args.l0.ndim = 0 /\ args.m0.ndim = 0
        /\ args.l = args.l0.data /\ args.m = args.m0.data)
           => ret = Value(<< <<Len(args.positions), 0>> >>)
    /\ (/\ op = "array_factor_tp" /\ IsPositions(args.positions)
        /\ args.theta0.ndim = 0 /\ args.phi0.ndim = 0
        /\ args.theta = args.theta0.data /\ args.phi = args.phi0.data)
           => ret = Value(<< <<Len(args.positions), 0>> >>)
    /\ (/\ op = "array_factor_hp" /\ IsPositions(args.positions)
        /\ args.scan.ndim = 0
        /\ args.source_pixels = args.scan.data)
           => ret = Value(<< <<Len(args.positions), 0>> >>)

InPhaseSumIsJWitness ==
    /\ op = "array_factor_hp"
    /\ args.scan = Scalar(4)
    /\ args.source_pixels = <<4>>
    /\ args.positions = hex_positions(3, 2)
    /\ ret = Value(<< <<8, 0>> >>)

RECURSIVE ProjectionFrom(_, _, _, _)
ProjectionFrom(A0, A, p, j) ==
    IF j > Len(A) THEN <<0, 0>>
    ELSE CAdd(CMul(CConj(A0[j][1]), A[j][p]), ProjectionFrom(A0, A, p, j + 1))

\* C10: what array_factor_lm returns for a source is the sum over the
\* elements j of conj(A[j, steer]) * A[j, source], A the array manifold; and
\* it depends on the two directions only through their difference.
LmIsManifoldProjection ==
    (/\ op = "array_factor_lm" /\ IsPositions(args.positions)
     /\ args.l0.ndim = 0 /\ args.m0.ndim = 0 /\ Len(args.l) = Len(args.m)) =>
        LET A == array_manifold(args.l, args.m, args.positions)
            A0 == array_manifold(args.l0.data, args.m0.data, args.positions)
        IN  /\ ret.kind = "value"
            /\ A.kind = "value" /\ A0.kind = "value"
            /\ Len(ret.v) = Len(args.l)
            /\ \A p \in 1..Len(args.l) :
                   /\ ret.v[p] = ProjectionFrom(A0.v, A.v, p, 1)
                   /\ Value(<<ret.v[p]>>) =
                          array_factor_lm(<<args.l[p] - args.l0.data[1]>>,
                                          <<args.m[p] - args.m0.data[1]>>,
                                          Scalar(0), Scalar(0), args.positions)

LmIsManifoldProjectionWitness ==
    /\ op = "array_factor_lm"
    /\ args.positions = <<<<1, 0>>, <<0, 3>>, <<2, 1>>>>
    /\ args.l = <<2, 1>> /\ args.m = <<-1, 0>>
    /\ args.l0 = Scalar(-1) /\ args.m0 = Scalar(1)
    /\ ret.kind = "value"
    /\ ret.v[1][2] # 0

IsScenario ==
    /\ op = "array_factor_lm"
    /\ args.positions = hex_positions(ScenarioN, ScenarioDx)
    /\ args.l0 = Scalar(0) /\ args.m0 = Scalar(0)
    /\ <<args.l, args.m>> = meshgrid_flat(axis(GridL), axis(GridM))

\* C9: for hex_positions(5, 0.9) steered broadside, the magnitude of
\* array_factor_lm over the (l, m) grid is greatest at (0, 0): the value
\* there is J and no sampled direction has a greater magnitude.
BroadsidePeak ==
    IsScenario =>
        /\ ret.kind = "value"
        /\ \A c \in 1..Len(args.l) :
               (args.l[c] = 0 /\ args.m[c] = 0) =>
                   /\ ret.v[c] = <<Len(args.positions), 0>>
                   /\ \A p \in 1..Len(args.l) : AbsSq(ret.v[p]) <= AbsSq(ret.v[c])
        /\ \E c \in 1..Len(args.l) : args.l[c] = 0 /\ args.m[c] = 0

BroadsidePeakWitness ==
    /\ IsScenario
    /\ Len(args.positions) = 23
    /\ \E p \in 1..Len(args.l) : AbsSq(ret.v[p]) < 23 * 23 /\ AbsSq(ret.v[p]) > 0

RECURSIVE CSum(_)
CSum(sq) == IF sq = <<>> THEN <<0, 0>> ELSE CAdd(Head(sq), CSum(Tail(sq)))

\* C3: linear_directivity(w, d) is |sum_i w_i|^2 divided by the sum over
\* all pairs (i,j) of w_i*w_j*sinc(2d(i-j)).
DirectivityIsSquaredSumOverCoupling ==
    op = "linear_directivity" =>
        ret = Value(Divide(AbsSq(CSum(args.a)), npsum(Terms(args.a, args.twod), args.order)))

\* C4: for one element, linear_directivity returns exactly 1.0 whatever the
\* weight and the spacing.
SingleElementDirectivityIsOne ==
    (op = "linear_directivity" /\ Len(args.a) = 1) =>
        ret.kind = "value" /\ IsExactly(ret.v, 1)

\* C8: linear_directivity([1,1], 0.5) is exactly 2.0: every off-diagonal
\* sinc argument is a non-zero integer and the denominator is the number
\* of elements.
HalfWaveDirectivityIsTwo ==
    (op = "linear_directivity" /\ args.a = << <<1, 0>>, <<1, 0>> >> /\ args.twod = 1) =>
        /\ ret.kind = "value"
        /\ IsExactly(ret.v, 2)
        /\ ret.v.den = << <<Len(args.a), 0>>, FZero >>
        /\ \A r \in 1..2, c \in 1..2 :
               r # c => args.twod * DiffLoop(zeros(2), 1, 2)[r][c] # 0

HalfWaveDirectivityIsTwoWitness ==
    /\ op = "linear_directivity"
    /\ args.a = << <<1, 0>>, <<1, 0>> >> /\ args.twod = 1 /\ args.order = "first_plus_rest"
    /\ ret.v.num = 4
    /\ Terms(args.a, args.twod)[2] = << <<0, SincResidue>>, FZero >>

IsSingleSteer == op \in {"array_factor_hp", "array_factor_tp", "array_factor_lm"}

SteeringLength ==
    CASE op = "array_factor_hp" -> Len(args.scan.data)
      [] op = "array_factor_tp" -> Len(args.theta0.data)
      [] op = "array_factor_lm" -> Len(args.l0.data)

\* C5: a call with arrays whose dimensions do not agree ends in an error
\* and returns no value: the quadrature when len(phi) is not the number of
\* rows or len(theta) is not the number of columns of PowerPattern, and a
\* single-steer array factor handed more than one steering direction.
MismatchRaises ==
    /\ (/\ op \in {"radiated_power", "numerical_directivity"}
        /\ (\/ Len(args.phi) # Len(args.PowerPattern)
            \/ Len(args.theta) # Len(args.PowerPattern[1])))
           => ret.kind # "value"
    /\ (IsSingleSteer /\ SteeringLength > 1) => ret.kind # "value"

====
